---------------------------- MODULE Spec2Model ----------------------------
(***************************************************************************)
(* Bicubic resize operator of MACE (mace/ops/resize_bicubic.cc).           *)
(*                                                                         *)
(* The module models                                                       *)
(*   - the arithmetic of the C++ type float (IEEE-754 binary32, round to   *)
(*     nearest even, every operation rounded on its own),                  *)
(*   - InitCoeffsTable, GetCoeffsTable, Bound, GetWeightsAndIndices,       *)
(*     Interpolate1D, ResizeImage and the Run methods of the CPU and GPU   *)
(*     operators.                                                          *)
(***************************************************************************)
EXTENDS Integers, Sequences, FiniteSets, TLC

(***************************************************************************)
(* Bounds of the model.                                                    *)
(***************************************************************************)
\* Table resolution K.  The program takes it from common::utils::kTableSize
\* (mace/ops/common/utils.h, outside src/); here it is a small resolution so
\* that the offsets 0, K and the ties of lrintf all occur for small images.
kTableSize == 4
\* Largest input height/width (the axis limit handed to GetWeightsAndIndices)
\* and largest output height/width of the axes the sample locator is run on.
MaxIn == 4
MaxOut == 4
\* Number of threads that call GetWeightsAndIndices concurrently.
NThreads == 2
\* Largest batch size, channel count and image height/width (input and
\* output) of the tensors the operators are run on.
MaxBatch == 2
MaxChannels == 2
MaxImage == 2

(***************************************************************************)
(* float: a value is <<m, e>> standing for m * 2^e, with m = 0 (and e = 0) *)
(* or 2^23 <= |m| < 2^24 (24 significant bits).  Subnormals, infinities    *)
(* and NaN do not arise for the operands the program computes.             *)
(***************************************************************************)
MantBits == 24

Pow2(k) == 2 ^ k

Abs(n) == IF n < 0 THEN -n ELSE n

Sign(n) == IF n < 0 THEN -1 ELSE 1

RECURSIVE BitLen(_)
BitLen(n) == IF n = 0 THEN 0 ELSE 1 + BitLen(n \div 2)

Zero == <<0, 0>>

\* The last step of a rounding: the carry out of the mantissa.
RoundCarry(s, q, e) ==
  IF q = Pow2(MantBits) THEN <<s * Pow2(MantBits - 1), e + 1>> ELSE <<s * q, e>>

\* Round to nearest, ties to even: q is the kept part, r the dropped part,
\* half the weight of the first dropped bit.
RoundBits(s, q, r, half, e, sticky) ==
  RoundCarry(s, IF r > half \/ (r = half /\ (sticky \/ q % 2 = 1)) THEN q + 1 ELSE q, e)

\* mag has L bits.
RoundLen(s, mag, e, sticky, L) ==
  IF L <= MantBits
  THEN <<s * mag * Pow2(MantBits - L), e - (MantBits - L)>>
  ELSE RoundBits(s, mag \div Pow2(L - MantBits), mag % Pow2(L - MantBits),
                 Pow2(L - MantBits - 1), e + (L - MantBits), sticky)

\* Rounds s * (mag + f) * 2^e to the nearest float, ties to even; f = 0 when
\* sticky is FALSE, 0 < f < 1 otherwise (then mag has at least MantBits + 2 bits).
RoundPack(s, mag, e, sticky) ==
  IF mag = 0 THEN Zero ELSE RoundLen(s, mag, e, sticky, BitLen(mag))

\* static_cast<float>(n) / the implicit conversion of an integer operand.
FromInt(n) == RoundPack(Sign(n), Abs(n), 0, FALSE)

FNeg(a) == <<-a[1], a[2]>>

FAbs(a) == <<Abs(a[1]), a[2]>>

\* A is the magnitude of hi and Bq that of lo with three guard bits, both at
\* the exponent of hi; st tells that bits of lo were dropped below them.
\* With equal exponents the operand of larger magnitude gives the sign.
AddMag(hi, lo, A, Bq, st) ==
  RoundPack(IF Sign(hi[1]) = Sign(lo[1]) \/ A >= Bq THEN Sign(hi[1]) ELSE Sign(lo[1]),
            Abs(IF Sign(hi[1]) = Sign(lo[1]) THEN A + Bq
                ELSE IF st THEN A - Bq - 1 ELSE A - Bq),
            hi[2] - 3, st)

\* hi has the larger exponent, d is the difference of the exponents.
AddAligned(hi, lo, d) ==
  AddMag(hi, lo, Abs(hi[1]) * 8,
         IF d >= MantBits + 3 THEN 0 ELSE (Abs(lo[1]) * 8) \div Pow2(d),
         IF d >= MantBits + 3 THEN TRUE ELSE (Abs(lo[1]) * 8) % Pow2(d) # 0)

\* float operator+
FAdd(a, b) ==
  IF a[1] = 0 THEN b
  ELSE IF b[1] = 0 THEN a
  ELSE IF a[2] >= b[2] THEN AddAligned(a, b, a[2] - b[2])
  ELSE AddAligned(b, a, b[2] - a[2])

\* float operator-
FSub(a, b) == FAdd(a, FNeg(b))

\* hi * 2^24 + losum is the 48-bit product.
MulWide(s, e, hi, losum) ==
  RoundPack(s, (hi + losum \div Pow2(24)) * 64 + (losum % Pow2(24)) \div Pow2(18),
            e, (losum % Pow2(24)) % Pow2(18) # 0)

\* The partial products of the 12-bit halves.
MulSum(s, e, hh, mid, ll) ==
  MulWide(s, e, hh + mid \div 4096, (mid % 4096) * 4096 + ll)

MulLimbs(s, e, a1, a0, b1, b0) == MulSum(s, e, a1 * b1, a1 * b0 + a0 * b1, a0 * b0)

\* float operator*; the 48-bit product is formed from 12-bit halves.
FMul(a, b) ==
  IF a[1] = 0 \/ b[1] = 0 THEN Zero
  ELSE MulLimbs(Sign(a[1]) * Sign(b[1]), a[2] + b[2] + 18,
                Abs(a[1]) \div 4096, Abs(a[1]) % 4096,
                Abs(b[1]) \div 4096, Abs(b[1]) % 4096)

\* n more quotient bits of r / d by long division: <<quotient, remainder>>.
RECURSIVE LongDiv(_, _, _, _)
LongDiv(q, r, d, n) ==
  IF n = 0 THEN <<q, r>>
  ELSE IF 2 * r >= d THEN LongDiv(2 * q + 1, 2 * r - d, d, n - 1)
       ELSE LongDiv(2 * q, 2 * r, d, n - 1)

DivPack(s, e, qr) == RoundPack(s, qr[1], e, qr[2] # 0)

\* float operator/ (b is not zero).
FDiv(a, b) ==
  IF a[1] = 0 THEN Zero
  ELSE DivPack(Sign(a[1]) * Sign(b[1]), a[2] - b[2] - (MantBits + 2),
               LongDiv(Abs(a[1]) \div Abs(b[1]), Abs(a[1]) % Abs(b[1]), Abs(b[1]),
                       MantBits + 2))

\* a >= b on floats
FGe(a, b) == FSub(a, b)[1] >= 0

\* A conversion to index_t without std::floor (truncation toward zero): the
\* fault the offset property C8 has to detect.
FTruncate(a) ==
  IF a[2] >= 0 THEN a[1] * Pow2(a[2])
  ELSE IF -a[2] >= MantBits THEN 0
  ELSE Sign(a[1]) * (Abs(a[1]) \div Pow2(-a[2]))

\* q is the integer part of the magnitude; exact: there is no fraction.
FloorParts(negative, q, exact) ==
  IF ~negative THEN q ELSE IF exact THEN -q ELSE -(q + 1)

\* std::floor followed by the conversion to index_t.
FFloor(a) ==
  IF a[2] >= 0 THEN a[1] * Pow2(a[2])
  ELSE IF -a[2] >= MantBits THEN FloorParts(a[1] < 0, 0, FALSE)
  ELSE FloorParts(a[1] < 0, Abs(a[1]) \div Pow2(-a[2]), Abs(a[1]) % Pow2(-a[2]) = 0)

NearestEven(q, r, half) == IF r > half \/ (r = half /\ q % 2 = 1) THEN q + 1 ELSE q

\* lrintf: to the nearest integer, ties to even (the default rounding mode).
Lrintf(a) ==
  IF a[2] >= 0 THEN a[1] * Pow2(a[2])
  ELSE IF -a[2] > MantBits THEN 0
  ELSE Sign(a[1]) * NearestEven(Abs(a[1]) \div Pow2(-a[2]), Abs(a[1]) % Pow2(-a[2]),
                                Pow2(-a[2] - 1))

\* 1.0f and 0.5f
One  == <<Pow2(MantBits - 1), -(MantBits - 1)>>
Half == <<Pow2(MantBits - 1), -MantBits>>

(***************************************************************************)
(* Coordinate transformation modes                                         *)
(* (mace/ops/common/coordinate_transformation_mode.h).                     *)
(***************************************************************************)
NONE == "NONE"
HALF_PIXEL == "HALF_PIXEL"
PYTORCH_HALF_PIXEL == "PYTORCH_HALF_PIXEL"
Modes == {NONE, HALF_PIXEL, PYTORCH_HALF_PIXEL}

(***************************************************************************)
(* Coefficient table.                                                      *)
(***************************************************************************)
\* float x = i * 1.0f / kTableSize;
TableX(i) == FDiv(FMul(FromInt(i), One), FromInt(kTableSize))

\* coeffs_tab_ptr[i * 2] = ((A + 2) * x - (A + 3)) * x * x + 1;
CoeffEvenAt(A, x) ==
  FAdd(FMul(FMul(FSub(FMul(FAdd(A, FromInt(2)), x), FAdd(A, FromInt(3))), x), x),
       FromInt(1))

CoeffEven(A, i) == CoeffEvenAt(A, TableX(i))

\* x += 1.0; coeffs_tab_ptr[i * 2 + 1] = ((A * x - 5 * A) * x + 8 * A) * x - 4 * A;
CoeffOddAt(A, x) ==
  FSub(FMul(FAdd(FMul(FSub(FMul(A, x), FMul(FromInt(5), A)), x),
                 FMul(FromInt(8), A)), x),
       FMul(FromInt(4), A))

CoeffOdd(A, i) == CoeffOddAt(A, FAdd(TableX(i), One))

\* The index range of new float[(kTableSize + 1) * 2].
TableDomain == 0 .. ((kTableSize + 1) * 2 - 1)

\* The buffer InitCoeffsTable(A) returns.
InitCoeffsTable(A) ==
  [idx \in TableDomain |->
     IF idx % 2 = 0 THEN CoeffEven(A, idx \div 2) ELSE CoeffOdd(A, idx \div 2)]

\* The argument GetCoeffsTable hands to InitCoeffsTable: -0.5f for the
\* TensorFlow half-pixel table, -0.75f otherwise.
TableA(is_tensorflow_half_pixel) ==
  IF is_tensorflow_half_pixel THEN FNeg(Half)
  ELSE FDiv(FromInt(-3), FromInt(4))

\* The two tables once built (constant, evaluated once).
BuiltTable == [br \in BOOLEAN |-> InitCoeffsTable(TableA(br))]

\* coeffs_tab[pos].  A position outside the buffer is undefined behaviour in
\* the program; the reads are recorded, and the value stands for whatever
\* the memory holds.
TabAt(tab, pos) == IF pos \in DOMAIN tab THEN tab[pos] ELSE Zero

(***************************************************************************)
(* Sample locator.                                                         *)
(***************************************************************************)
Min(a, b) == IF a < b THEN a ELSE b
Max(a, b) == IF a > b THEN a ELSE b

\* Bound without std::max(0, val): the fault the index property C5 has to
\* detect.
BoundUpperOnly(val, limit) == Min(limit - 1, val)

Bound(val, limit) == Min(limit - 1, Max(0, val))

\* Lines 72-77: the continuous input coordinate.
InputCoord(scale, mode, out_loc, out_size) ==
  IF mode = HALF_PIXEL
  THEN FSub(FMul(FAdd(FromInt(out_loc), Half), scale), Half)
  ELSE IF mode = PYTORCH_HALF_PIXEL
  THEN (IF out_size > 1
        THEN FSub(FMul(FAdd(FromInt(out_loc), Half), scale), Half)
        ELSE Zero)
  ELSE FMul(FromInt(out_loc), scale)

\* Lines 87-98 and 110-113: the table positions of the four taps.
TapPos(offset) ==
  <<offset * 2 + 1, offset * 2,
    (kTableSize - offset) * 2, (kTableSize - offset) * 2 + 1>>

\* Lines 87-98 without the comparisons against the unclamped positions: the
\* fault the weight property C10 has to detect.
RawWeightsUnmasked(tab, indices, in_loc, offset) ==
  [k \in 1..4 |-> IF TapPos(offset)[k] \in DOMAIN tab THEN tab[TapPos(offset)[k]] ELSE Zero]

\* Lines 87-98: a tap whose index was moved by Bound gets 0.0f and its table
\* entry is not read.
HalfPixelRawWeights(tab, indices, in_loc, offset) ==
  [k \in 1..4 |->
     IF indices[k] = in_loc - 2 + k THEN TabAt(tab, TapPos(offset)[k]) ELSE Zero]

\* Lines 110-113.
DirectWeights(tab, offset) == [k \in 1..4 |-> TabAt(tab, TapPos(offset)[k])]

\* (*weights)[0] + (*weights)[1] + (*weights)[2] + (*weights)[3]
WeightSum(w) == FAdd(FAdd(FAdd(w[1], w[2]), w[3]), w[4])

\* std::numeric_limits<float>::min()
FltMin == <<Pow2(MantBits - 1), -149>>

\* Lines 99-107 left out: the fault the weight-sum property C9 has to detect.
NormalizeSkipped(w) == w

\* Lines 101-106, weight_sum being the sum of line 99.
NormalizeBy(w, weight_sum) ==
  IF FGe(FAbs(weight_sum), FMul(FromInt(1000), FltMin))
  THEN [k \in 1..4 |-> FMul(w[k], FDiv(One, weight_sum))]
  ELSE w

\* Lines 99-107.
Normalize(w) == NormalizeBy(w, WeightSum(w))

\* The table branch GetWeightsAndIndices takes (lines 84, 85, 109).
IsTfHalfPixel(mode) == mode = HALF_PIXEL

\* Lines 99-107: the outputs and the locals of a call as a record; a holds
\* the arguments, reads the table positions loaded, raw the weights of
\* lines 87-98 or 110-113.
SampleRecord(a, in, in_loc, delta, offset, indices, reads, raw) ==
  [scale |-> a.scale, mode |-> a.mode, out_loc |-> a.out_loc,
   out_size |-> a.out_size, limit |-> a.limit,
   in |-> in, in_loc |-> in_loc, delta |-> delta, offset |-> offset,
   indices |-> indices, reads |-> reads, raw |-> raw,
   weights |-> IF a.mode = HALF_PIXEL THEN Normalize(raw) ELSE raw]

\* Lines 84-98 and 108-113: the table loads.
ReadWeights(tab, a, in, in_loc, delta, offset, indices) ==
  SampleRecord(a, in, in_loc, delta, offset, indices,
               IF a.mode = HALF_PIXEL
               THEN {TapPos(offset)[k] : k \in {j \in 1..4 : indices[j] = in_loc - 2 + j}}
               ELSE {TapPos(offset)[k] : k \in 1..4},
               IF a.mode = HALF_PIXEL
               THEN HalfPixelRawWeights(tab, indices, in_loc, offset)
               ELSE DirectWeights(tab, offset))

\* Lines 80-83: offset and indices.
OffsetAndIndices(tab, a, in, in_loc, delta) ==
  ReadWeights(tab, a, in, in_loc, delta,
              Lrintf(FMul(delta, FromInt(kTableSize))),
              <<Bound(in_loc - 1, a.limit), Bound(in_loc, a.limit),
                Bound(in_loc + 1, a.limit), Bound(in_loc + 2, a.limit)>>)

\* Lines 78-79: in_loc and delta.
FloorAndDelta(tab, a, in) ==
  OffsetAndIndices(tab, a, in, FFloor(in), FSub(in, FromInt(FFloor(in))))

\* GetWeightsAndIndices, given the two tables its static pointers refer to.
GetWeightsAndIndices(tabs, scale, mode, out_loc, out_size, limit) ==
  FloorAndDelta(tabs[IsTfHalfPixel(mode)],
                [scale |-> scale, mode |-> mode, out_loc |-> out_loc,
                 out_size |-> out_size, limit |-> limit],
                InputCoord(scale, mode, out_loc, out_size))

\* common::utils::CalculateResizeScale (mace/ops/common/utils.h).
CalculateResizeScale(in_size, out_size, align_corners) ==
  IF align_corners /\ in_size > 1 /\ out_size > 1
  THEN FDiv(FromInt(in_size - 1), FromInt(out_size - 1))
  ELSE FDiv(FromInt(in_size), FromInt(out_size))

(***************************************************************************)
(* State.                                                                  *)
(***************************************************************************)
VARIABLES
  \* --- the function-local statics and the heap -------------------------
  tabGuard,     \* [BOOLEAN -> guard] of "static ... coeffs_tab" in GetCoeffsTable
  coeffs_tab,   \* [BOOLEAN -> buffer id, 0 = not constructed] the shared_ptr statics
  gwGuard,      \* [BOOLEAN -> guard] of "static const float *coeffs_tab" in GetWeightsAndIndices
  gwTab,        \* [BOOLEAN -> buffer id, 0 = null] those pointers
  heap,         \* sequence of the float buffers allocated so far (id = position)
  initCalls,    \* [BOOLEAN -> number of executions of InitCoeffsTable for that table]
  lateWrites,   \* number of stores into a buffer after its InitCoeffsTable returned it
  \* --- threads calling GetWeightsAndIndices concurrently ---------------
  tpc,          \* [thread -> position]
  targs,        \* [thread -> arguments of the call in progress]
  tlocal,       \* [thread -> locals of its InitCoeffsTable: buffer id, A, i]
  tret,         \* [thread -> what its last call returned, and through which pointer]
  \* --- one axis swept by the loops of ResizeImage ----------------------
  axis,         \* scale, mode, out_size, limit of the axis
  next_loc,     \* next output coordinate
  call,         \* record of the last GetWeightsAndIndices call
  \* --- one Run of a ResizeBicubicOp -----------------------------------
  op,           \* the operator instance and its inputs (device, arguments, tensors)
  opc,          \* position in Run
  status,       \* what Run reported: "running", a MaceStatus, or a fatal check
  out_height,   \* locals of Run
  out_width,
  output,       \* data of Output(0): [address -> float], <<>> before Resize
  tasks,        \* [tile of Compute2D -> <<b, y>> of its next loop iteration, or Done]
  writers,      \* [output address -> sequence of the tiles that stored to it]
  in_reads,     \* input addresses the workers have loaded from
  out_reads,    \* output addresses the workers have loaded from
  clamp_seen,   \* has Bound moved a tap of some sample of this Run?
  kernel_args,  \* <<out_height, out_width>> handed to kernel_->Compute, or <<>>
  resize_image_calls  \* number of calls of ResizeImage

cacheVars  == <<tabGuard, coeffs_tab, gwGuard, gwTab, heap, initCalls, lateWrites>>
threadVars == <<tpc, targs, tlocal, tret>>
locateVars == <<axis, next_loc, call>>
opVars     == <<op, opc, status, out_height, out_width, output, tasks, writers,
               in_reads, out_reads, clamp_seen, kernel_args, resize_image_calls>>
vars == <<cacheVars, threadVars, locateVars, opVars>>

Threads == 1 .. NThreads

\* An indeterminate float (new float[n] does not initialise its elements).
Uninit == <<0, -1>>

NoCall == [out_loc |-> -1]

CacheInit ==
  /\ tabGuard = [br \in BOOLEAN |-> "uninit"]
  /\ coeffs_tab = [br \in BOOLEAN |-> 0]
  /\ gwGuard = [br \in BOOLEAN |-> "uninit"]
  /\ gwTab = [br \in BOOLEAN |-> 0]
  /\ heap = <<>>
  /\ initCalls = [br \in BOOLEAN |-> 0]
  /\ lateWrites = 0

ThreadsIdle ==
  /\ tpc = [t \in Threads |-> "idle"]
  /\ targs = [t \in Threads |-> NoCall]
  /\ tlocal = [t \in Threads |-> [id |-> 0, i |-> 0]]
  /\ tret = [t \in Threads |-> [ptr |-> 0, res |-> NoCall]]

LocateIdle ==
  /\ axis = [limit |-> 0]
  /\ next_loc = 0
  /\ call = NoCall

OpIdle ==
  /\ op = [device |-> "none"]
  /\ opc = "idle"
  /\ status = "running"
  /\ out_height = 0
  /\ out_width = 0
  /\ output = <<>>
  /\ tasks = <<>>
  /\ writers = <<>>
  /\ in_reads = {}
  /\ out_reads = {}
  /\ clamp_seen = FALSE
  /\ kernel_args = <<>>
  /\ resize_image_calls = 0

\* The buffer a pointer refers to.
Deref(h, p) == IF p \in DOMAIN h THEN h[p] ELSE <<>>

\* The tables GetWeightsAndIndices reads through its static pointers.
TablesVia(h, ptrs) == [br \in BOOLEAN |-> Deref(h, ptrs[br])]

(***************************************************************************)
(* Initialisation of a function-local static (C++11 [stmt.dcl]/4): the     *)
(* first thread to arrive runs the initialiser, threads arriving meanwhile *)
(* wait, later ones skip it.                                               *)
(***************************************************************************)
\* A guard that is not taken while the initialiser runs (a static without
\* thread-safe initialisation): the fault the build-once property C3 has to
\* detect.
GuardFreeRacy(g) == g # "done"

\* May a thread that finds the guard in state g start the initialiser?
GuardFree(g) == g = "uninit"

(***************************************************************************)
(* GetWeightsAndIndices called by concurrent threads, one step per         *)
(* statement that touches shared state.                                    *)
(***************************************************************************)
Branch(t) == IsTfHalfPixel(targs[t].mode)

\* Entry of GetWeightsAndIndices (lines 64-83 touch only locals); the first
\* output coordinate of an axis of MaxOut samples over MaxIn, in any mode.
GwCall(t) ==
  /\ tpc[t] = "idle"
  /\ \E m \in Modes :
       targs' = [targs EXCEPT ![t] =
                   [scale |-> CalculateResizeScale(MaxIn, MaxOut, FALSE), mode |-> m,
                    out_loc |-> 0, out_size |-> MaxOut, limit |-> MaxIn]]
  \* the caller's weights and indices vectors are fresh for every call
  /\ tret' = [tret EXCEPT ![t] = [ptr |-> 0, res |-> NoCall]]
  /\ tpc' = [tpc EXCEPT ![t] = "gw_static"]
  /\ UNCHANGED <<cacheVars, tlocal, locateVars, opVars>>

\* Lines 85 / 109: static const float *coeffs_tab = GetCoeffsTable(...);
GwStatic(t) ==
  /\ tpc[t] = "gw_static"
  /\ IF gwGuard[Branch(t)] = "done"
     THEN /\ tpc' = [tpc EXCEPT ![t] = "gw_weights"]
          /\ UNCHANGED gwGuard
     ELSE /\ GuardFree(gwGuard[Branch(t)])
          /\ gwGuard' = [gwGuard EXCEPT ![Branch(t)] = "running"]
          /\ tpc' = [tpc EXCEPT ![t] = "gct_static"]
  /\ UNCHANGED <<tabGuard, coeffs_tab, gwTab, heap, initCalls, lateWrites,
                 targs, tlocal, tret, locateVars, opVars>>

\* Lines 52 / 55: static const std::shared_ptr<float> coeffs_tab = InitCoeffsTable(A);
\* entering InitCoeffsTable allocates the buffer (lines 36-39).
GctStatic(t) ==
  /\ tpc[t] = "gct_static"
  /\ IF tabGuard[Branch(t)] = "done"
     THEN /\ tpc' = [tpc EXCEPT ![t] = "gct_return"]
          /\ UNCHANGED <<tabGuard, heap, initCalls, tlocal>>
     ELSE /\ GuardFree(tabGuard[Branch(t)])
          /\ tabGuard' = [tabGuard EXCEPT ![Branch(t)] = "running"]
          /\ initCalls' = [initCalls EXCEPT ![Branch(t)] = @ + 1]
          /\ heap' = Append(heap, [idx \in TableDomain |-> Uninit])
          /\ tlocal' = [tlocal EXCEPT ![t] = [id |-> Len(heap) + 1, i |-> 0]]
          /\ tpc' = [tpc EXCEPT ![t] = "init_loop"]
  /\ UNCHANGED <<coeffs_tab, gwGuard, gwTab, lateWrites, targs, tret, locateVars, opVars>>

\* Is buffer id the target of a constructed static?
Published(id) == \E br \in BOOLEAN : tabGuard[br] = "done" /\ coeffs_tab[br] = id

\* Lines 40-45: one iteration of the loop of InitCoeffsTable.
InitLoop(t) ==
  /\ tpc[t] = "init_loop"
  /\ tlocal[t].i <= kTableSize
  /\ LET i == tlocal[t].i
         A == TableA(Branch(t))
     IN  heap' = [heap EXCEPT ![tlocal[t].id] =
                    [@ EXCEPT ![i * 2] = CoeffEven(A, i), ![i * 2 + 1] = CoeffOdd(A, i)]]
  /\ lateWrites' = IF Published(tlocal[t].id) THEN lateWrites + 1 ELSE lateWrites
  /\ tlocal' = [tlocal EXCEPT ![t].i = @ + 1]
  /\ UNCHANGED <<tabGuard, coeffs_tab, gwGuard, gwTab, initCalls, tpc, targs, tret,
                 locateVars, opVars>>

\* Line 46 and the end of the static's initialisation in GetCoeffsTable.
InitReturn(t) ==
  /\ tpc[t] = "init_loop"
  /\ tlocal[t].i > kTableSize
  /\ coeffs_tab' = [coeffs_tab EXCEPT ![Branch(t)] = tlocal[t].id]
  /\ tabGuard' = [tabGuard EXCEPT ![Branch(t)] = "done"]
  /\ tpc' = [tpc EXCEPT ![t] = "gct_return"]
  /\ UNCHANGED <<gwGuard, gwTab, heap, initCalls, lateWrites, targs, tlocal, tret,
                 locateVars, opVars>>

\* Lines 53 / 56: return coeffs_tab.get(); the pointer initialises the static
\* of GetWeightsAndIndices.
GctReturn(t) ==
  /\ tpc[t] = "gct_return"
  /\ gwTab' = [gwTab EXCEPT ![Branch(t)] = coeffs_tab[Branch(t)]]
  /\ gwGuard' = [gwGuard EXCEPT ![Branch(t)] = "done"]
  /\ tpc' = [tpc EXCEPT ![t] = "gw_weights"]
  /\ UNCHANGED <<tabGuard, coeffs_tab, heap, initCalls, lateWrites, targs, tlocal, tret,
                 locateVars, opVars>>

\* Lines 86-107 / 110-113: the weights are read through the static pointer.
GwWeights(t) ==
  /\ tpc[t] = "gw_weights"
  /\ tret' = [tret EXCEPT ![t] =
                [ptr |-> gwTab[Branch(t)],
                 res |-> GetWeightsAndIndices(TablesVia(heap, gwTab), targs[t].scale,
                           targs[t].mode, targs[t].out_loc, targs[t].out_size,
                           targs[t].limit)]]
  /\ tpc' = [tpc EXCEPT ![t] = "idle"]
  /\ targs' = [targs EXCEPT ![t] = NoCall]
  /\ UNCHANGED <<cacheVars, tlocal, locateVars, opVars>>

CacheInitial == CacheInit /\ ThreadsIdle /\ LocateIdle /\ OpIdle

CacheNext ==
  \E t \in Threads :
    \/ GwCall(t)
    \/ GwStatic(t)
    \/ GctStatic(t)
    \/ InitLoop(t)
    \/ InitReturn(t)
    \/ GctReturn(t)
    \/ GwWeights(t)

SpecCache == CacheInitial /\ [][CacheNext]_vars

(***************************************************************************)
(* GetWeightsAndIndices run over one axis by a single thread, as the loops *)
(* of ResizeImage do (lines 142-151).  The static initialisation is not    *)
(* interleaved here.                                                       *)
(***************************************************************************)
\* The statics after a thread has passed the static initialisation of branch
\* br (lines 85 / 109 with GetCoeffsTable and InitCoeffsTable) without
\* interleaving.
StaticsAfterInit(br) ==
  IF gwGuard[br] = "done"
  THEN [tabGuard |-> tabGuard, coeffs_tab |-> coeffs_tab, gwGuard |-> gwGuard,
        gwTab |-> gwTab, heap |-> heap, initCalls |-> initCalls]
  ELSE IF tabGuard[br] = "done"
  THEN [tabGuard |-> tabGuard, coeffs_tab |-> coeffs_tab,
        gwGuard |-> [gwGuard EXCEPT ![br] = "done"],
        gwTab |-> [gwTab EXCEPT ![br] = coeffs_tab[br]],
        heap |-> heap, initCalls |-> initCalls]
  ELSE [tabGuard |-> [tabGuard EXCEPT ![br] = "done"],
        coeffs_tab |-> [coeffs_tab EXCEPT ![br] = Len(heap) + 1],
        gwGuard |-> [gwGuard EXCEPT ![br] = "done"],
        gwTab |-> [gwTab EXCEPT ![br] = Len(heap) + 1],
        heap |-> Append(heap, BuiltTable[br]),
        initCalls |-> [initCalls EXCEPT ![br] = @ + 1]]

StaticInit(br) ==
  LET st == StaticsAfterInit(br)
  IN  /\ tabGuard' = st.tabGuard
      /\ coeffs_tab' = st.coeffs_tab
      /\ gwGuard' = st.gwGuard
      /\ gwTab' = st.gwTab
      /\ heap' = st.heap
      /\ initCalls' = st.initCalls
      /\ UNCHANGED lateWrites

\* The tables read after that initialisation.
TablesAfterInit(br) ==
  TablesVia(StaticsAfterInit(br).heap, StaticsAfterInit(br).gwTab)

AxisConfigs ==
  {[scale |-> CalculateResizeScale(i, o, al), mode |-> m, out_size |-> o, limit |-> i] :
     i \in 1..MaxIn, o \in 1..MaxOut, al \in BOOLEAN, m \in Modes}

LocateCall ==
  /\ next_loc < axis.out_size
  /\ StaticInit(IsTfHalfPixel(axis.mode))
  /\ call' = GetWeightsAndIndices(TablesAfterInit(IsTfHalfPixel(axis.mode)),
                                  axis.scale, axis.mode,
                                  next_loc, axis.out_size, axis.limit)
  /\ next_loc' = next_loc + 1
  /\ UNCHANGED <<axis, threadVars, opVars>>

\* The next ResizeImage call sweeps another axis.
LocateNewAxis ==
  /\ next_loc = axis.out_size
  /\ axis' \in AxisConfigs
  /\ next_loc' = 0
  /\ UNCHANGED <<call, cacheVars, threadVars, opVars>>

LocateInitial ==
  /\ CacheInit /\ ThreadsIdle /\ OpIdle
  /\ axis \in AxisConfigs
  /\ next_loc = 0
  /\ call = NoCall

LocateNext == LocateCall \/ LocateNewAxis

SpecLocate == LocateInitial /\ [][LocateNext]_vars

(***************************************************************************)
(* ResizeImage and the operators' Run.                                     *)
(***************************************************************************)
Done == <<-1, -1>>

\* The input address with the row stride in_height instead of in_width: the
\* fault the address property C6 has to detect.
InputAddrHeightStride(b, c, yi, xi, channels, in_height, in_width) ==
  (b * channels + c) * in_height * in_width + yi * in_height + xi

\* images + (b * channels + c) * in_height * in_width, indexed by
\* y_indices[i] * in_width + x_indices[j]  (lines 156-157, 163-166).
InputAddr(b, c, yi, xi, channels, in_height, in_width) ==
  (b * channels + c) * in_height * in_width + yi * in_width + xi

\* The output address without the channel: the fault the write-once property
\* C1 has to detect.
OutputAddrNoChannel(b, c, y, x, channels, oh, ow) ==
  (b * channels) * oh * ow + y * ow + x

\* output + (b * channels + c) * out_height * out_width, indexed by
\* y * out_width + x  (lines 158-159, 169).
OutputAddr(b, c, y, x, channels, oh, ow) ==
  (b * channels + c) * oh * ow + y * ow + x

\* Data of Input(0): element a holds a + 1.
Images(n) == [a \in 0 .. (n - 1) |-> FromInt(a + 1)]

\* A load from the input buffer; outside the buffer the value is whatever
\* the memory holds (the loads are recorded in in_reads).
ImageAt(img, a) == IF a \in DOMAIN img THEN img[a] ELSE Uninit

Interpolate1D(weights, values) ==
  FAdd(FAdd(FAdd(FMul(values[1], weights[1]), FMul(values[2], weights[2])),
            FMul(values[3], weights[3])),
       FMul(values[4], weights[4]))

\* Lines 163-166: the input addresses of the 16 taps of an output element.
TapAddrs(b, c, ys, xs, o) ==
  {InputAddr(b, c, ys.indices[i], xs.indices[j], o.channels, o.in_height, o.in_width) :
     i \in 1..4, j \in 1..4}

\* Lines 160-170: the value stored for output element (b, c, y, x).
Pixel(img, b, c, ys, xs, o) ==
  LET coeff == [i \in 1..4 |->
                  Interpolate1D(xs.weights,
                    [j \in 1..4 |->
                       ImageAt(img, InputAddr(b, c, ys.indices[i], xs.indices[j],
                                              o.channels, o.in_height, o.in_width))])]
  IN  Interpolate1D(ys.weights, coeff)

\* The contiguous sub-ranges of [0, n) delimited by the cut points.
Intervals(n, cuts) ==
  {se \in (0 .. (n - 1)) \X (1 .. n) :
     /\ se[1] < se[2]
     /\ se[1] \in cuts \cup {0}
     /\ se[2] \in cuts \cup {n}
     /\ \A k \in cuts : ~(se[1] < k /\ k < se[2])}

\* A partition Compute2D may make of [0, end0) x [0, end1) with steps 1:
\* tiles <<start0, end0, start1, end1>> (mace/utils/thread_pool.h).
Partitions(end0, end1) ==
  {{<<r0[1], r0[2], r1[1], r1[2]>> : r0 \in Intervals(end0, c0), r1 \in Intervals(end1, c1)} :
     c0 \in SUBSET (1 .. (end0 - 1)), c1 \in SUBSET (1 .. (end1 - 1))}

\* Line 198 / 284.
CpuRankOk(rank) == rank = 4
GpuRankOk(rank) == rank = 4

\* A size test that accepts zero entries: the fault the equivalence property
\* C7 has to detect.
HasStaticSizeNonNegative(size_) == Len(size_) = 2 /\ size_[1] >= 0 /\ size_[2] >= 0

\* Line 207: size_.size() == 2 && size_[0] > 0 && size_[1] > 0
CpuHasStaticSize(size_) == Len(size_) = 2 /\ size_[1] > 0 /\ size_[2] > 0
\* Line 289.
GpuHasStaticSize(size_) == Len(size_) = 2 /\ size_[1] > 0 /\ size_[2] > 0

\* Line 212 / 294: MACE_CHECK(InputSize() >= 2)
CpuHasSizeInput(n_inputs) == n_inputs >= 2
GpuHasSizeInput(n_inputs) == n_inputs >= 2

\* common::utils::GetSizeParamFromTensor (mace/ops/common/utils.h): the two
\* integers of the size tensor.
GetSizeParamFromTensor(t) == <<t[1], t[2]>>

\* Line 216 without MACE_RETURN_IF_ERROR: the fault the abort property C2 has
\* to detect.
ReturnIfErrorDropped(st) == "compute"

\* Line 216, MACE_RETURN_IF_ERROR: where Run continues after output->Resize
\* returned st.
ReturnIfError(st) == IF st = "MACE_SUCCESS" THEN "compute" ELSE "returned"

\* Line 223.
IsIdentity(oh, ow, in_height, in_width) == oh = in_height /\ ow = in_width

\* An element count without the width: the fault the identity property C4
\* has to detect.
CopyCountNoWidth(batch, channels, in_height, in_width) == batch * channels * in_height

\* Line 225: the number of elements std::copy copies.
CopyCount(batch, channels, in_height, in_width) == batch * channels * in_height * in_width

NumIn(o) == o.batch * o.channels * o.in_height * o.in_width

\* The operator instances and inputs the model runs.
\* (a) validation: both devices, any rank, size attribute and inputs, on a
\*     1 x 1 x 1 x 1 image;
\* (b) computation: the CPU operator with a static size on any image.
SizeAttrs ==
  {<<-1, -1>>, <<1>>} \cup {<<h, w>> : h \in 0 .. MaxImage, w \in 0 .. MaxImage}

SizeInputs == {<<>>} \cup {<<h, w>> : h \in 1 .. MaxImage, w \in 1 .. MaxImage}

ValidationOps ==
  {[device |-> d, rank |-> r, batch |-> 1, channels |-> 1, in_height |-> 1,
    in_width |-> 1, size_ |-> sz, n_inputs |-> IF st = <<>> THEN 1 ELSE 2,
    size_tensor |-> st, resize_ok |-> ok, align_corners |-> FALSE, mode |-> NONE] :
     d \in {"CPU", "GPU"}, r \in {3, 4}, sz \in SizeAttrs, st \in SizeInputs,
     ok \in BOOLEAN}

ComputeOps ==
  {[device |-> "CPU", rank |-> 4, batch |-> sh[1], channels |-> sh[2],
    in_height |-> sh[3], in_width |-> sh[4], size_ |-> <<sh[5], sh[6]>>,
    n_inputs |-> 1, size_tensor |-> <<>>, resize_ok |-> TRUE,
    align_corners |-> al, mode |-> m] :
     sh \in (1 .. MaxBatch) \X (1 .. MaxChannels) \X (1 .. MaxImage) \X (1 .. MaxImage)
            \X (1 .. MaxImage) \X (1 .. MaxImage),
     al \in BOOLEAN, m \in Modes}

\* ---- CPU operator ------------------------------------------------------
\* Lines 198-199.
CpuCheckRank ==
  /\ op.device = "CPU" /\ opc = "check_rank"
  /\ IF CpuRankOk(op.rank)
     THEN opc' = "resolve_size" /\ UNCHANGED status
     ELSE opc' = "aborted" /\ status' = "FATAL: input must be 4-dimensional."
  /\ UNCHANGED <<op, out_height, out_width, output, tasks, writers, in_reads,
                 out_reads, clamp_seen, kernel_args, resize_image_calls,
                 cacheVars, threadVars, locateVars>>

\* Lines 205-214.
CpuResolveSize ==
  /\ op.device = "CPU" /\ opc = "resolve_size"
  /\ IF CpuHasStaticSize(op.size_)
     THEN /\ out_height' = op.size_[1]
          /\ out_width' = op.size_[2]
          /\ opc' = "resize_output"
          /\ UNCHANGED status
     ELSE IF CpuHasSizeInput(op.n_inputs)
     THEN /\ out_height' = GetSizeParamFromTensor(op.size_tensor)[1]
          /\ out_width' = GetSizeParamFromTensor(op.size_tensor)[2]
          /\ opc' = "resize_output"
          /\ UNCHANGED status
     ELSE /\ opc' = "aborted"
          /\ status' = "FATAL: Check failed: InputSize() >= 2"
          /\ UNCHANGED <<out_height, out_width>>
  /\ UNCHANGED <<op, output, tasks, writers, in_reads, out_reads, clamp_seen,
                 kernel_args, resize_image_calls, cacheVars, threadVars, locateVars>>

\* Lines 215-221: output->Resize({batch, channels, out_height, out_width});
\* a fresh buffer holds indeterminate values.
CpuResizeOutput ==
  /\ op.device = "CPU" /\ opc = "resize_output"
  /\ LET st == IF op.resize_ok THEN "MACE_SUCCESS" ELSE "MACE_OUT_OF_RESOURCES"
     IN  /\ opc' = ReturnIfError(st)
         /\ status' = IF st = "MACE_SUCCESS" THEN status ELSE st
         /\ output' = IF st = "MACE_SUCCESS"
                      THEN [a \in 0 .. (op.batch * op.channels * out_height * out_width - 1)
                              |-> Uninit]
                      ELSE output
  /\ UNCHANGED <<op, out_height, out_width, tasks, writers, in_reads, out_reads,
                 clamp_seen, kernel_args, resize_image_calls,
                 cacheVars, threadVars, locateVars>>

\* Lines 223-228: std::copy(input_data, input_data + n, output_data).
CpuIdentityCopy ==
  /\ op.device = "CPU" /\ opc = "compute"
  /\ IsIdentity(out_height, out_width, op.in_height, op.in_width)
  /\ LET n == CopyCount(op.batch, op.channels, op.in_height, op.in_width)
     IN  /\ output' = [a \in DOMAIN output |->
                         IF a < n THEN ImageAt(Images(NumIn(op)), a) ELSE output[a]]
         /\ writers' = [a \in 0 .. (n - 1) |-> <<"copy">>]
  /\ status' = "MACE_SUCCESS"
  /\ opc' = "returned"
  /\ UNCHANGED <<op, out_height, out_width, tasks, in_reads, out_reads, clamp_seen,
                 kernel_args, resize_image_calls, cacheVars, threadVars, locateVars>>

\* Lines 230-250 and 136-139, 175: the scales are computed and ResizeImage
\* hands the lambda to Compute2D, which tiles [0, batch) x [0, out_height).
CpuResizeImage ==
  /\ op.device = "CPU" /\ opc = "compute"
  /\ ~IsIdentity(out_height, out_width, op.in_height, op.in_width)
  /\ resize_image_calls' = resize_image_calls + 1
  /\ \E part \in Partitions(op.batch, out_height) :
       tasks' = [tile \in part |-> <<tile[1], tile[3]>>]
  /\ opc' = "parallel"
  /\ UNCHANGED <<op, status, out_height, out_width, output, writers, in_reads,
                 out_reads, clamp_seen, kernel_args, cacheVars, threadVars, locateVars>>

Clamped(smp) == \E k \in 1..4 : smp.indices[k] # smp.in_loc - 2 + k

\* Lines 142-173: one iteration of the loop over y of the lambda, run by the
\* worker that owns the tile.
WorkerRow(tile) ==
  /\ opc = "parallel"
  /\ tile \in DOMAIN tasks
  /\ tasks[tile] # Done
  /\ StaticInit(IsTfHalfPixel(op.mode))
  /\ LET b  == tasks[tile][1]
         y  == tasks[tile][2]
         height_scale == CalculateResizeScale(op.in_height, out_height, op.align_corners)
         width_scale  == CalculateResizeScale(op.in_width, out_width, op.align_corners)
         tabs == TablesAfterInit(IsTfHalfPixel(op.mode))
         img  == Images(NumIn(op))
         ys == GetWeightsAndIndices(tabs, height_scale, op.mode, y, out_height,
                                    op.in_height)
         xs(x) == GetWeightsAndIndices(tabs, width_scale, op.mode, x, out_width,
                                       op.in_width)
         XC == (0 .. (out_width - 1)) \X (0 .. (op.channels - 1))
         addr(xc) == OutputAddr(b, xc[2], y, xc[1], op.channels, out_height, out_width)
         stored == {addr(xc) : xc \in XC}
         storesTo(a) == {xc \in XC : addr(xc) = a}
         \* the last store in loop order (x outer, c inner) stays
         last(a) == CHOOSE xc \in storesTo(a) :
                      \A o \in storesTo(a) :
                        o[1] * op.channels + o[2] <= xc[1] * op.channels + xc[2]
         old(a) == IF a \in DOMAIN writers THEN writers[a] ELSE <<>>
     IN  /\ output' = [a \in DOMAIN output |->
                         IF a \in stored
                         THEN Pixel(img, b, last(a)[2], ys, xs(last(a)[1]), op)
                         ELSE output[a]]
         /\ writers' = [a \in DOMAIN writers \cup stored |->
                          old(a) \o [k \in 1 .. Cardinality(storesTo(a)) |-> tile]]
         /\ in_reads' = in_reads \cup
                          UNION {TapAddrs(b, c, ys, xs(x), op) :
                                   x \in 0 .. (out_width - 1), c \in 0 .. (op.channels - 1)}
         /\ clamp_seen' = (clamp_seen \/ Clamped(ys)
                           \/ \E x \in 0 .. (out_width - 1) : Clamped(xs(x)))
         /\ tasks' = [tasks EXCEPT ![tile] =
                        IF y + 1 < tile[4] THEN <<b, y + 1>>
                        ELSE IF b + 1 < tile[2] THEN <<b + 1, tile[3]>>
                        ELSE Done]
  /\ UNCHANGED <<op, opc, status, out_height, out_width, out_reads, kernel_args,
                 resize_image_calls, threadVars, locateVars>>

\* Compute2D returns when every tile is done; line 252.
CpuJoin ==
  /\ op.device = "CPU" /\ opc = "parallel"
  /\ \A tile \in DOMAIN tasks : tasks[tile] = Done
  /\ status' = "MACE_SUCCESS"
  /\ opc' = "returned"
  /\ UNCHANGED <<op, out_height, out_width, output, tasks, writers, in_reads,
                 out_reads, clamp_seen, kernel_args, resize_image_calls,
                 cacheVars, threadVars, locateVars>>

\* ---- GPU operator ------------------------------------------------------
\* Lines 284-285.
GpuCheckRank ==
  /\ op.device = "GPU" /\ opc = "check_rank"
  /\ IF GpuRankOk(op.rank)
     THEN opc' = "resolve_size" /\ UNCHANGED status
     ELSE opc' = "aborted" /\ status' = "FATAL: input must be 4-dimensional."
  /\ UNCHANGED <<op, out_height, out_width, output, tasks, writers, in_reads,
                 out_reads, clamp_seen, kernel_args, resize_image_calls,
                 cacheVars, threadVars, locateVars>>

\* Lines 287-296.
GpuResolveSize ==
  /\ op.device = "GPU" /\ opc = "resolve_size"
  /\ IF GpuHasStaticSize(op.size_)
     THEN /\ out_height' = op.size_[1]
          /\ out_width' = op.size_[2]
          /\ opc' = "kernel"
          /\ UNCHANGED status
     ELSE IF GpuHasSizeInput(op.n_inputs)
     THEN /\ out_height' = GetSizeParamFromTensor(op.size_tensor)[1]
          /\ out_width' = GetSizeParamFromTensor(op.size_tensor)[2]
          /\ opc' = "kernel"
          /\ UNCHANGED status
     ELSE /\ opc' = "aborted"
          /\ status' = "FATAL: Check failed: InputSize() >= 2"
          /\ UNCHANGED <<out_height, out_width>>
  /\ UNCHANGED <<op, output, tasks, writers, in_reads, out_reads, clamp_seen,
                 kernel_args, resize_image_calls, cacheVars, threadVars, locateVars>>

\* Line 298: return kernel_->Compute(context, input, out_height, out_width,
\* output); the kernel is opaque, its status is whatever it returns.
GpuCompute ==
  /\ op.device = "GPU" /\ opc = "kernel"
  /\ kernel_args' = <<out_height, out_width>>
  /\ status' \in {"MACE_SUCCESS", "MACE_OUT_OF_RESOURCES"}
  /\ opc' = "returned"
  /\ UNCHANGED <<op, out_height, out_width, output, tasks, writers, in_reads,
                 out_reads, clamp_seen, resize_image_calls,
                 cacheVars, threadVars, locateVars>>

\* The entry of Run (lines 193-196, 281-283).
RunEntry ==
  /\ CacheInit /\ ThreadsIdle /\ LocateIdle
  /\ opc = "check_rank"
  /\ status = "running"
  /\ out_height = 0
  /\ out_width = 0
  /\ output = <<>>
  /\ tasks = <<>>
  /\ writers = <<>>
  /\ in_reads = {}
  /\ out_reads = {}
  /\ clamp_seen = FALSE
  /\ kernel_args = <<>>
  /\ resize_image_calls = 0

OpInitial == RunEntry /\ op \in ValidationOps \cup ComputeOps

\* The Runs that decide validation, size resolution and the identity copy:
\* the validation instances and the instances whose size is the input's.
RunInitial ==
  /\ RunEntry
  /\ op \in ValidationOps \cup {o \in ComputeOps : o.size_ = <<o.in_height, o.in_width>>}

OpNext ==
  \/ CpuCheckRank
  \/ CpuResolveSize
  \/ CpuResizeOutput
  \/ CpuIdentityCopy
  \/ CpuResizeImage
  \/ \E tile \in DOMAIN tasks : WorkerRow(tile)
  \/ CpuJoin
  \/ GpuCheckRank
  \/ GpuResolveSize
  \/ GpuCompute

SpecOp == OpInitial /\ [][OpNext]_vars

SpecRun == RunInitial /\ [][OpNext]_vars

(***************************************************************************)
(* Properties.                                                             *)
(***************************************************************************)
\* Number of elements of Output(0).
NumOut == op.batch * op.channels * out_height * out_width

\* The tile of the running partition that owns loop iteration (b, y).
TileOf(b, y) ==
  CHOOSE tile \in DOMAIN tasks :
    tile[1] <= b /\ b < tile[2] /\ tile[3] <= y /\ y < tile[4]

\* C1: in ResizeImage, whatever the tiling Compute2D chose and however the
\* workers interleave, no output element is ever stored twice and no load
\* goes to the output buffer; when Compute2D has returned, every element
\* (b, c, y, x) has been stored exactly once, by the worker whose tile holds
\* (b, y).
C1_WrittenExactlyOnce ==
  (op.device = "CPU" /\ resize_image_calls > 0) =>
    /\ out_reads = {}
    /\ \A a \in DOMAIN writers : Len(writers[a]) = 1
    /\ \A a \in DOMAIN writers : writers[a][1] \in DOMAIN tasks
    /\ opc = "returned" =>
         /\ DOMAIN writers = 0 .. (NumOut - 1)
         /\ \A b \in 0 .. (op.batch - 1), c \in 0 .. (op.channels - 1),
               y \in 0 .. (out_height - 1), x \in 0 .. (out_width - 1) :
              writers[(b * op.channels + c) * out_height * out_width
                      + y * out_width + x] = <<TileOf(b, y)>>

\* A resize of two channels has returned after more than one worker ran.
C1_Witness ==
  /\ op.device = "CPU" /\ opc = "returned" /\ resize_image_calls = 1
  /\ Cardinality(DOMAIN tasks) >= 2
  /\ op.channels >= 2 /\ out_width >= 2 /\ out_height >= 2
  /\ DOMAIN writers = 0 .. (NumOut - 1)

\* C2: when the CPU Run reports a failure (a fatal check on the rank or on
\* the missing size input, or the status of output->Resize), no worker has
\* been dispatched and no element of the output has been written.
C2_NoPartialOutput ==
  (op.device = "CPU" /\ status \notin {"running", "MACE_SUCCESS"}) =>
    /\ tasks = <<>>
    /\ writers = <<>>
    /\ resize_image_calls = 0
    /\ \A a \in DOMAIN output : output[a] = Uninit

\* output->Resize has failed and Run has returned its status.
C2_Witness ==
  /\ op.device = "CPU" /\ opc = "returned"
  /\ status = "MACE_OUT_OF_RESOURCES"
  /\ ~op.resize_ok

\* C3: for each table InitCoeffsTable runs at most once however the threads
\* interleave; a call that has returned read through the pointer of the one
\* constructed table, whose content is the built table; no entry is stored
\* after the table was constructed.
C3_BuiltOnce ==
  /\ \A br \in BOOLEAN : initCalls[br] <= 1
  /\ lateWrites = 0
  /\ \A t \in Threads :
       tret[t].ptr # 0 =>
         /\ tabGuard[IsTfHalfPixel(tret[t].res.mode)] = "done"
         /\ tret[t].ptr = coeffs_tab[IsTfHalfPixel(tret[t].res.mode)]
         /\ Deref(heap, tret[t].ptr) = BuiltTable[IsTfHalfPixel(tret[t].res.mode)]

\* Two threads have returned from calls that used the same table, and both
\* tables have been built.
C3_Witness ==
  /\ initCalls[TRUE] = 1 /\ initCalls[FALSE] = 1
  /\ \E t1, t2 \in Threads :
       t1 # t2 /\ tret[t1].ptr # 0 /\ tret[t2].ptr = tret[t1].ptr

\* C4: when the CPU Run has returned for an output of the input's height and
\* width, the output equals the input element for element and ResizeImage
\* was not called.
C4_Identity ==
  (/\ op.device = "CPU" /\ opc = "returned" /\ status = "MACE_SUCCESS"
   /\ out_height = op.in_height /\ out_width = op.in_width) =>
    /\ resize_image_calls = 0
    /\ DOMAIN output = 0 .. (NumIn(op) - 1)
    /\ \A a \in DOMAIN output : output[a] = FromInt(a + 1)

\* An identity Run on an image of several rows, columns, channels and batches
\* in half-pixel mode with align_corners has returned.
C4_Witness ==
  /\ op.device = "CPU" /\ opc = "returned" /\ status = "MACE_SUCCESS"
  /\ out_height = op.in_height /\ out_width = op.in_width
  /\ op.in_height >= 2 /\ op.in_width >= 2 /\ op.channels >= 2 /\ op.batch >= 2
  /\ op.mode = HALF_PIXEL /\ op.align_corners
  /\ output = Images(NumIn(op))

\* C5: the four indices of every call of GetWeightsAndIndices lie in
\* [0, limit - 1].
C5_IndicesInRange ==
  call.out_loc >= 0 =>
    \A k \in 1..4 : 0 <= call.indices[k] /\ call.indices[k] <= call.limit - 1

\* A call whose first tap lay before 0 and whose last tap lay beyond
\* limit - 1.
C5_Witness ==
  /\ call.out_loc >= 0
  /\ call.in_loc - 1 < 0
  /\ call.in_loc + 2 > call.limit - 1
  /\ call.indices[1] = 0 /\ call.indices[4] = call.limit - 1

\* C6: every input address a worker loads from lies in
\* [0, batch * channels * in_height * in_width) and every output address it
\* stores to lies in [0, batch * channels * out_height * out_width).
C6_AddressesInRange ==
  op.device = "CPU" =>
    /\ \A a \in in_reads : 0 <= a /\ a < op.batch * op.channels * op.in_height * op.in_width
    /\ \A a \in DOMAIN writers : 0 <= a /\ a < NumOut

\* A half-pixel upscaling whose taps were moved by Bound has returned.
C6_Witness ==
  /\ op.device = "CPU" /\ opc = "returned" /\ resize_image_calls = 1
  /\ clamp_seen
  /\ op.mode = HALF_PIXEL
  /\ out_height > op.in_height /\ out_width > op.in_width
  /\ in_reads # {}

\* What the claim says both variants resolve for operator o.
C7_Resolution(o) ==
  IF o.rank # 4 THEN [fatal |-> "FATAL: input must be 4-dimensional."]
  ELSE IF Len(o.size_) = 2 /\ o.size_[1] > 0 /\ o.size_[2] > 0
  THEN [size |-> <<o.size_[1], o.size_[2]>>]
  ELSE IF o.n_inputs >= 2
  THEN [size |-> <<o.size_tensor[1], o.size_tensor[2]>>]
  ELSE [fatal |-> "FATAL: Check failed: InputSize() >= 2"]

\* C7: on the same rank, size attribute and inputs the CPU and the GPU Run
\* fail on the same check or resolve the same (out_height, out_width): the
\* static size when it has two positive entries, else the two integers of
\* the second input, a fatal check when that input is absent; the GPU Run
\* hands exactly that pair to kernel_->Compute.
C7_SameResolution ==
  (op.device \in {"CPU", "GPU"} /\ opc \notin {"check_rank", "resolve_size"}) =>
    IF "fatal" \in DOMAIN C7_Resolution(op)
    THEN /\ opc = "aborted"
         /\ status = C7_Resolution(op).fatal
         /\ kernel_args = <<>>
    ELSE /\ opc # "aborted"
         /\ <<out_height, out_width>> = C7_Resolution(op).size
         /\ (op.device = "GPU" /\ opc = "returned") => kernel_args = C7_Resolution(op).size
         /\ kernel_args # <<>> => (op.device = "GPU" /\ opc = "returned")

\* The GPU Run has called the kernel with the size read from the second
\* input, the size attribute holding an entry that is not positive.
C7_Witness ==
  /\ op.device = "GPU" /\ opc = "returned"
  /\ Len(op.size_) = 2 /\ op.size_[1] = 0 /\ op.size_[2] > 0
  /\ kernel_args = op.size_tensor

\* C8: in every call, in every mode, offset lies in [0, K], and so do
\* K - offset and, within the 2 * (K + 1) entries of the table, the four
\* positions 2*offset+1, 2*offset, 2*(K-offset), 2*(K-offset)+1 and the
\* positions the call loaded from.
C8_OffsetInTable ==
  call.out_loc >= 0 =>
    /\ 0 <= call.offset /\ call.offset <= kTableSize
    /\ 0 <= kTableSize - call.offset /\ kTableSize - call.offset <= kTableSize
    /\ \A pos \in {2 * call.offset + 1, 2 * call.offset,
                   2 * (kTableSize - call.offset), 2 * (kTableSize - call.offset) + 1} :
         0 <= pos /\ pos < 2 * (kTableSize + 1)
    /\ \A pos \in call.reads :
         pos \in DOMAIN Deref(heap, gwTab[IsTfHalfPixel(call.mode)])

\* A call whose input coordinate lay before 0 and whose fraction rounded up
\* to offset K.
C8_Witness ==
  /\ call.out_loc >= 0
  /\ call.in_loc = -1
  /\ call.offset = kTableSize
  /\ call.reads # {}

\* 1e-5
C9_Tolerance == FDiv(One, FromInt(100000))

\* Has Bound moved none of the four taps of the call?
C9_Unclamped == 0 <= call.in_loc - 1 /\ call.in_loc + 2 <= call.limit - 1

\* C9: in HALF_PIXEL mode the four weights of a call sum to 1 within 1e-5
\* when no tap was clamped, and also whenever the sum of the assembled
\* weights reaches 1000 * FLT_MIN in magnitude.
C9_WeightsSumToOne ==
  (/\ call.out_loc >= 0 /\ call.mode = HALF_PIXEL
   /\ \/ C9_Unclamped
      \/ FGe(FAbs(WeightSum(call.raw)), FMul(FromInt(1000), FltMin))) =>
    FGe(C9_Tolerance, FAbs(FSub(WeightSum(call.weights), One)))

\* A half-pixel call between two table ends with no tap clamped.
C9_Witness ==
  /\ call.out_loc >= 0 /\ call.mode = HALF_PIXEL
  /\ C9_Unclamped
  /\ call.offset \notin {0, kTableSize}

\* The tables for A = -0.5 and A = -0.75.
C10_HalfPixelTable == InitCoeffsTable(FDiv(FromInt(-1), FromInt(2)))
C10_OtherTable == InitCoeffsTable(FDiv(FromInt(-3), FromInt(4)))

\* The four table positions of a call.
C10_Positions ==
  <<2 * call.offset + 1, 2 * call.offset,
    2 * (kTableSize - call.offset), 2 * (kTableSize - call.offset) + 1>>

\* C10: in HALF_PIXEL mode the weight of tap k before renormalisation is
\* the entry of the A = -0.5 table when the unclamped position of the tap
\* lies in [0, limit - 1], and 0 when it does not; in the other modes the
\* four weights are the entries of the A = -0.75 table whatever was clamped,
\* and they are returned as read.
C10_TapWeights ==
  call.out_loc >= 0 =>
    IF call.mode = HALF_PIXEL
    THEN \A k \in 1..4 :
           IF 0 <= call.in_loc - 2 + k /\ call.in_loc - 2 + k <= call.limit - 1
           THEN call.raw[k] = C10_HalfPixelTable[C10_Positions[k]]
           ELSE call.raw[k] = Zero
    ELSE /\ \A k \in 1..4 : call.weights[k] = C10_OtherTable[C10_Positions[k]]
         /\ \A k \in 1..4 : call.weights[k] = call.raw[k]

\* A half-pixel call with a clamped tap whose table entry is not 0.
C10_Witness ==
  /\ call.out_loc >= 0 /\ call.mode = HALF_PIXEL
  /\ \E k \in 1..4 :
       /\ ~(0 <= call.in_loc - 2 + k /\ call.in_loc - 2 + k <= call.limit - 1)
       /\ C10_HalfPixelTable[C10_Positions[k]] # Zero
       /\ call.raw[k] = Zero

=============================================================================
